---- MODULE Spec2Model ----
(***************************************************************************)
(* A model of actix_geo_widget: the lookup functions of src/src/lib.rs     *)
(* (lookup_asn, lookup_city, get_summary, lookup) and the request handlers *)
(* of src/src/main.rs that call them.                                      *)
(*                                                                         *)
(* The MaxMind database files are modelled by their contents: a function   *)
(* from addresses to what Reader::lookup returns for that address, a       *)
(* Result<geoip2::Asn, MaxMindDBError> or Result<geoip2::City, ...>.       *)
(* Option<T> is a sequence of length at most one (None is <<>>, Some(x) is *)
(* <<x>>), a names map is a function from locale codes to strings, and a   *)
(* Rust panic (Option::unwrap on None, an index past the end of a Vec) is  *)
(* an outcome of kind "Panic": the call returns nothing.                   *)
(*                                                                         *)
(* TLC's integers are 32-bit signed, so the u32 values of the model stay   *)
(* below 2^31; no arithmetic is done on them.                              *)
(***************************************************************************)
EXTENDS Integers, Sequences, FiniteSets, TLC

VARIABLES
    asn_database_file,   \* contents of the GeoLite2-ASN database
    city_database_file,  \* contents of the GeoLite2-City database
    debug,               \* Args.debug / AppData.debug
    verbose,             \* Args.verbose / AppData.verbose
    call,                \* the last operation invoked, with its arguments
    ret,                 \* the outcome of that operation
    asn_metadata,        \* Metadata of the GeoLite2-ASN database
    city_metadata,       \* Metadata of the GeoLite2-City database
    history              \* the lookup calls made so far, with their outcomes

vars == <<asn_database_file, city_database_file, debug, verbose, call, ret,
          asn_metadata, city_metadata, history>>

----------------------------------------------------------------------------
(* Option<T>, Result<T, E>, and the outcome of a call                      *)

None == <<>>
Some(x) == <<x>>
is_some(o) == Len(o) = 1
unwrap(o) == o[1]

Ok(x) == [ok |-> TRUE, value |-> x]
Err(e) == [ok |-> FALSE, value |-> e]

\* A call either returns a value or panics; `printed` is what it wrote to
\* stdout on the way.
Return(v, printed) == [kind |-> "Return", value |-> v, printed |-> printed]
Panic(what, printed) == [kind |-> "Panic", value |-> what, printed |-> printed]
NoCall == [kind |-> "None", value |-> "", printed |-> <<>>]
Idle == [op |-> "idle"]

----------------------------------------------------------------------------
(* Addresses: std::net::IpAddr values                                      *)

Addr4321 == [family |-> "V4", octets |-> <<4, 3, 2, 1>>]
Addr2600 == [family |-> "V6", octets |-> <<9728, 0, 0, 0, 0, 0, 0, 1>>]
Addresses == {Addr4321, Addr2600}

\* MaxMindDBError variants Reader::lookup can return
LookupErrors == {"AddressNotFoundError", "InvalidDatabaseError"}

----------------------------------------------------------------------------
(* lookup_asn                                                              *)

AsnNumbers == {7, 15169, 2147483647}
AsnOrganizations == {"Google LLC", "Level 3, Inc. (US)"}

\* geoip2::Asn: both fields are Option
AsnRecords ==
    [autonomous_system_number : {None} \cup {Some(n) : n \in AsnNumbers},
     autonomous_system_organization : {None} \cup {Some(s) : s \in AsnOrganizations}]

AsnLookupResults == {Err(e) : e \in LookupErrors} \cup {Ok(r) : r \in AsnRecords}

\* Reader::lookup(addr) on an opened database
reader_lookup(database_file, addr) == database_file[addr]

asn_result_default == [asn |-> 0, asn_organization |-> "-"]

\* what `if debug { println!(...) }` writes in the Err arm
debug_line(fn, addr, error, dbg) ==
    IF dbg THEN <<[fn |-> fn, addr |-> addr, error |-> error]>> ELSE <<>>

\* lookup_asn with the lookup itself unwrapped: reader.lookup(addr).unwrap()
lookup_asn_unwrapped(database_file, addr, dbg, vrb) ==
    LET asn_lookup_result == reader_lookup(database_file, addr) IN
    IF asn_lookup_result.ok
    THEN LET result == asn_lookup_result.value IN
         IF ~is_some(result.autonomous_system_number)
            \/ ~is_some(result.autonomous_system_organization)
         THEN Panic("unwrap()", <<>>)
         ELSE Return([asn |-> unwrap(result.autonomous_system_number),
                      asn_organization |->
                          unwrap(result.autonomous_system_organization)],
                     <<>>)
    ELSE Panic("reader.lookup(addr).unwrap()", <<>>)

\* lookup_asn with the Err arm putting the error into the organization when
\* debug is set
lookup_asn_leaky(database_file, addr, dbg, vrb) ==
    LET asn_lookup_result == reader_lookup(database_file, addr) IN
    IF asn_lookup_result.ok
    THEN LET result == asn_lookup_result.value IN
         IF ~is_some(result.autonomous_system_number)
         THEN Panic("autonomous_system_number.unwrap()", <<>>)
         ELSE IF ~is_some(result.autonomous_system_organization)
         THEN Panic("autonomous_system_organization.unwrap()", <<>>)
         ELSE Return([asn |-> unwrap(result.autonomous_system_number),
                      asn_organization |->
                          unwrap(result.autonomous_system_organization)],
                     <<>>)
    ELSE Return([asn |-> 0,
                 asn_organization |->
                     IF dbg THEN asn_lookup_result.value ELSE "-"],
                debug_line("lookup_asn", addr, asn_lookup_result.value, dbg))

lookup_asn(database_file, addr, dbg, vrb) ==
    LET asn_lookup_result == reader_lookup(database_file, addr) IN
    IF asn_lookup_result.ok
    THEN LET result == asn_lookup_result.value IN
         IF ~is_some(result.autonomous_system_number)
         THEN Panic("autonomous_system_number.unwrap()", <<>>)
         ELSE IF ~is_some(result.autonomous_system_organization)
         THEN Panic("autonomous_system_organization.unwrap()", <<>>)
         ELSE Return([asn |-> unwrap(result.autonomous_system_number),
                      asn_organization |->
                          unwrap(result.autonomous_system_organization)],
                     <<>>)
    ELSE Return(asn_result_default,
                debug_line("lookup_asn", addr, asn_lookup_result.value, dbg))

----------------------------------------------------------------------------
(* lookup_city                                                             *)

MaxSubdivisions == 2

\* names: Option<BTreeMap<&str, &str>>, absent, without "en", or with "en"
NamesOf(en, fr) == {None, Some("fr" :> fr), Some("en" :> en @@ "fr" :> fr)}

\* geoip2::city::City
CityModels == {[names |-> n] : n \in NamesOf("Mountain View", "Mountain View (fr)")}

\* geoip2::city::Continent
ContinentModels ==
    [code : {None, Some("NA")},
     names : NamesOf("North America", "Amerique du Nord")]

\* geoip2::city::Country
CountryModels ==
    [iso_code : {None, Some("US")},
     names : NamesOf("United States", "Etats-Unis")]

\* geoip2::city::Subdivision: the first-level one, and those after it
SubdivisionModels ==
    [iso_code : {None, Some("CA")},
     names : NamesOf("California", "Californie")]

LaterSubdivisionModels ==
    {[iso_code |-> Some("SCL"), names |-> Some("en" :> "Santa Clara" @@ "fr" :> "Santa Clara (fr)")],
     [iso_code |-> None, names |-> None]}

RECURSIVE SeqsUpTo(_, _)
SeqsUpTo(S, n) ==
    IF n <= 0 THEN {<<>>}
    ELSE LET shorter == SeqsUpTo(S, n - 1) IN
         shorter \cup {Append(t, x) : t \in shorter, x \in S}

\* Vec<Subdivision>: empty, or a first-level subdivision and those after it
SubdivisionVecs ==
    {<<>>} \cup {<<f>> \o t : f \in SubdivisionModels,
                             t \in SeqsUpTo(LaterSubdivisionModels, MaxSubdivisions - 1)}

OptionOf(S) == {None} \cup {Some(x) : x \in S}

\* geoip2::City, the four substructures lookup_city reads
CityRecords ==
    [city : OptionOf(CityModels),
     continent : OptionOf(ContinentModels),
     country : OptionOf(CountryModels),
     subdivisions : OptionOf(SubdivisionVecs)]

CityLookupResults == {Err(e) : e \in LookupErrors} \cup {Ok(r) : r \in CityRecords}

\* the defaults with empty strings for the sentinel
city_result_empty ==
    [city |-> "",
     continent |-> <<"", "">>,
     country |-> <<"", "">>,
     subdivisions |-> <<"", "">>]

city_result_default ==
    [city |-> "-",
     continent |-> <<"-", "-">>,
     country |-> <<"-", "-">>,
     subdivisions |-> <<"-", "-">>]

\* names.unwrap().get("en").unwrap().to_string(): Ok(the name), or Err(the
\* unwrap that panics)
names_en(names) ==
    IF ~is_some(names) THEN Err("names.unwrap()")
    ELSE IF "en" \notin DOMAIN unwrap(names) THEN Err("get(\"en\").unwrap()")
    ELSE Ok(unwrap(names)["en"])

\* ( code.unwrap().to_string(), names.unwrap().get("en").unwrap().to_string() )
code_and_name(code, names) ==
    IF ~is_some(code) THEN Err("code.unwrap()")
    ELSE LET name == names_en(names) IN
         IF ~name.ok THEN name ELSE Ok(<<unwrap(code), name.value>>)

\* let city = match result.city { ... }
city_of(result) ==
    IF result.city = None THEN Ok("-")
    ELSE names_en(unwrap(result.city).names)

\* let continent = match result.continent { ... }
continent_of(result) ==
    IF result.continent = None THEN Ok(<<"-", "-">>)
    ELSE LET continent == unwrap(result.continent) IN
         code_and_name(continent.code, continent.names)

\* let country = match result.country { ... }
country_of(result) ==
    IF result.country = None THEN Ok(<<"-", "-">>)
    ELSE LET country == unwrap(result.country) IN
         code_and_name(country.iso_code, country.names)

\* let subdivisions = match result.subdivisions { ... }; subdivisions[0] is
\* the first element (index 1 here) and panics on an empty Vec
subdivisions_of(result) ==
    IF result.subdivisions = None THEN Ok(<<"-", "-">>)
    ELSE LET subdivisions == unwrap(result.subdivisions) IN
         IF Len(subdivisions) = 0 THEN Err("subdivisions[0]")
         ELSE code_and_name(subdivisions[1].iso_code, subdivisions[1].names)

lookup_city(database_file, addr, dbg, vrb) ==
    LET city_lookup_result == reader_lookup(database_file, addr) IN
    IF city_lookup_result.ok
    THEN LET result == city_lookup_result.value
             city == city_of(result)
             continent == continent_of(result)
             country == country_of(result)
             subdivisions == subdivisions_of(result)
         IN
         IF ~city.ok THEN Panic(city.value, <<>>)
         ELSE IF ~continent.ok THEN Panic(continent.value, <<>>)
         ELSE IF ~country.ok THEN Panic(country.value, <<>>)
         ELSE IF ~subdivisions.ok THEN Panic(subdivisions.value, <<>>)
         ELSE Return([city |-> city.value,
                      continent |-> continent.value,
                      country |-> country.value,
                      subdivisions |-> subdivisions.value],
                     <<>>)
    ELSE Return(city_result_default,
                debug_line("lookup_city", addr, city_lookup_result.value, dbg))

----------------------------------------------------------------------------
(* get_summary and lookup                                                  *)

digit(d) ==
    CASE d = 0 -> "0" [] d = 1 -> "1" [] d = 2 -> "2" [] d = 3 -> "3"
      [] d = 4 -> "4" [] d = 5 -> "5" [] d = 6 -> "6" [] d = 7 -> "7"
      [] d = 8 -> "8" [] d = 9 -> "9"

\* u32::to_string: the decimal digits, most significant first
RECURSIVE to_string(_)
to_string(n) ==
    IF n < 10 THEN digit(n) ELSE to_string(n \div 10) \o digit(n % 10)

\* String::push_str and String::push
push_str(summary, s) == summary \o s

\* get_summary with the country code and the subdivision code exchanged
get_summary_swapped(asn, city) ==
    city.city \o "," \o city.country[1] \o "/" \o city.subdivisions[1]
        \o "; " \o asn.asn_organization \o " (" \o to_string(asn.asn) \o ");"

get_summary(asn, city) ==
    LET s0 == ""
        s1 == push_str(s0, city.city)
        s2 == push_str(s1, ",")
        s3 == push_str(s2, city.subdivisions[1])
        s4 == push_str(s3, "/")
        s5 == push_str(s4, city.country[1])
        s6 == push_str(s5, "; ")
        s7 == push_str(s6, asn.asn_organization)
        s8 == push_str(s7, " (")
        s9 == push_str(s8, to_string(asn.asn))
    IN  push_str(s9, ");")

\* LookupResult { address: addr, ... } built with a fixed address
LookupResult_fixed_address(addr, asn, city, summary) ==
    [address |-> Addr4321,
     asn |-> asn.asn,
     asn_organization |-> asn.asn_organization,
     city |-> city.city,
     continent |-> city.continent,
     country |-> city.country,
     subdivisions |-> city.subdivisions,
     summary |-> summary]

\* LookupResult { address: addr, asn: asn.asn, ... }
LookupResult(addr, asn, city, summary) ==
    [address |-> addr,
     asn |-> asn.asn,
     asn_organization |-> asn.asn_organization,
     city |-> city.city,
     continent |-> city.continent,
     country |-> city.country,
     subdivisions |-> city.subdivisions,
     summary |-> summary]

\* lookup keeping the address of the call before it for the ASN part
lookup_stale_asn(asn_file, city_file, addr, dbg, vrb) ==
    LET asn_addr == IF call.op = "lookup" THEN call.addr ELSE addr
        asn == lookup_asn(asn_file, asn_addr, dbg, vrb) IN
    IF asn.kind = "Panic" THEN asn
    ELSE LET city == lookup_city(city_file, addr, dbg, vrb) IN
         IF city.kind = "Panic" THEN Panic(city.value, asn.printed \o city.printed)
         ELSE LET summary == get_summary(asn.value, city.value) IN
              Return(LookupResult(addr, asn.value, city.value, summary),
                     asn.printed \o city.printed)

\* a panic in lookup_asn or lookup_city unwinds through lookup
lookup(asn_file, city_file, addr, dbg, vrb) ==
    LET asn == lookup_asn(asn_file, addr, dbg, vrb) IN
    IF asn.kind = "Panic" THEN asn
    ELSE LET city == lookup_city(city_file, addr, dbg, vrb) IN
         IF city.kind = "Panic" THEN Panic(city.value, asn.printed \o city.printed)
         ELSE LET summary == get_summary(asn.value, city.value) IN
              Return(LookupResult(addr, asn.value, city.value, summary),
                     asn.printed \o city.printed)

----------------------------------------------------------------------------
(* The /address/{address} and /address handlers                            *)

\* the strings a request can carry where an address is expected
AddressStrings == {"4.3.2.1", "2600::1", "2600:0:0:0:0:0:0:1", "not-an-address"}

\* str::parse::<IpAddr>
ip_parse(s) ==
    CASE s = "4.3.2.1" -> Ok(Addr4321)
      [] s = "2600::1" -> Ok(Addr2600)
      [] s = "2600:0:0:0:0:0:0:1" -> Ok(Addr2600)
      [] OTHER -> Err("AddrParseError")

\* IpAddr's Display, which serde uses for the address field
ip_to_string(a) ==
    CASE a = Addr4321 -> "4.3.2.1"
      [] a = Addr2600 -> "2600::1"

\* json!(result): the address is a string, the pairs are arrays
to_json(result) ==
    [address |-> ip_to_string(result.address),
     asn |-> result.asn,
     asn_organization |-> result.asn_organization,
     city |-> result.city,
     continent |-> result.continent,
     country |-> result.country,
     subdivisions |-> result.subdivisions,
     summary |-> result.summary]

\* serde_json::to_string when the query has "compact", to_string_pretty
\* otherwise: the same JSON value in the two layouts
json_response(compact, value) ==
    [status |-> 200,
     content_type |-> "application/json",
     layout |-> IF is_some(compact) THEN "compact" ELSE "pretty",
     json |-> value]

\* the part of both handlers after the address string is known
address_response(data_asn, data_city, address_string, compact, dbg, vrb) ==
    LET address == ip_parse(address_string) IN
    IF ~address.ok THEN Panic("parse::<IpAddr>().unwrap()", <<>>)
    ELSE LET result == lookup(data_asn, data_city, address.value, dbg, vrb) IN
         IF result.kind = "Panic" THEN result
         ELSE Return(json_response(compact, to_json(result.value)), result.printed)

specific_address_handler(data_asn, data_city, path_address, compact, dbg, vrb) ==
    address_response(data_asn, data_city, path_address, compact, dbg, vrb)

\* ConnectionInfo::realip_remote_addr: the Forwarded header, then
\* X-Forwarded-For, then the peer address of the socket
realip_remote_addr(conn) ==
    IF is_some(conn.forwarded) THEN conn.forwarded
    ELSE IF is_some(conn.x_forwarded_for) THEN conn.x_forwarded_for
    ELSE conn.peer_addr

client_address_handler(data_asn, data_city, conn, compact, dbg, vrb) ==
    IF ~is_some(realip_remote_addr(conn))
    THEN Panic("realip_remote_addr().unwrap()", <<>>)
    ELSE address_response(data_asn, data_city, unwrap(realip_remote_addr(conn)),
                          compact, dbg, vrb)

----------------------------------------------------------------------------
(* The /healthcheck handler                                                *)

\* (604800 * 2) + 86400: 2 weeks + 1 day
maximum_stale_ttl == (604800 * 2) + 86400

\* the build_epoch of the example Metadata in the handler's comment
ExampleBuildEpoch == 1722343686

\* the most the clock advances between two readings within one request
MaxClockStep == 1

\* maxminddb::Metadata, the fields the handler reads
Metadata(database_type, build_epoch) ==
    [database_type |-> database_type, build_epoch |-> build_epoch]

\* lookup_metadata(database_file): the reader's metadata
lookup_metadata(metadata) == metadata

\* DateTime::from_timestamp(build_epoch as i64, 0): a DateTime<Utc> is held
\* as its seconds since the epoch. It is None outside chrono's range of
\* years, which no 32-bit number of seconds leaves.
from_timestamp(secs) == Some(secs)

\* (Utc::now() - build_datetime).num_seconds(): whole seconds, truncated
\* towards zero; a reading of the clock is its seconds and whether a fraction
\* of a second follows them
num_seconds(now, build_datetime) ==
    IF now.secs < build_datetime /\ now.subsec
    THEN now.secs - build_datetime + 1
    ELSE now.secs - build_datetime

pad2(n) == IF n < 10 THEN "0" \o digit(n) ELSE to_string(n)
pad4(n) == IF n < 1000 THEN "0" \o pad2(n \div 100) \o pad2(n % 100) ELSE to_string(n)

\* the proleptic Gregorian date of a day number counted from 1970-01-01
civil_from_days(days) ==
    LET z == days + 719468
        era == z \div 146097
        doe == z - era * 146097
        yoe == (doe - doe \div 1460 + doe \div 36524 - doe \div 146096) \div 365
        doy == doe - (365 * yoe + yoe \div 4 - yoe \div 100)
        mp == (5 * doy + 2) \div 153
        d == doy - (153 * mp + 2) \div 5 + 1
        m == IF mp < 10 THEN mp + 3 ELSE mp - 9
        y == yoe + era * 400 + (IF m <= 2 THEN 1 ELSE 0)
    IN  [year |-> y, month |-> m, day |-> d]

\* Display of DateTime<Utc>: "2024-07-30 12:48:06 UTC"
datetime_to_string(secs) ==
    LET date == civil_from_days(secs \div 86400)
        sod == secs % 86400
    IN  pad4(date.year) \o "-" \o pad2(date.month) \o "-" \o pad2(date.day) \o " "
            \o pad2(sod \div 3600) \o ":" \o pad2((sod % 3600) \div 60) \o ":"
            \o pad2(sod % 60) \o " UTC"

\* the comparison with > for >=
is_stale_exclusive(database_age, ttl) == database_age > ttl

\* if database_age >= maximum_stale_ttl
is_stale(database_age, ttl) == database_age >= ttl

\* format!("Database is stale ({} build date: {})", ...)
stale_reason(database, build_datetime) ==
    "Database is stale (" \o database.database_type \o " build date: "
        \o datetime_to_string(build_datetime) \o ")"

\* the default result with is_healthy false
health_default_unhealthy == [is_healthy |-> FALSE, reason |-> "Check of databases passed"]

\* let mut is_healthy = true; let mut reason = "Check of databases passed"
health_default == [is_healthy |-> TRUE, reason |-> "Check of databases passed"]

\* what the handler prints for one database when debug is set
debug_metadata(database, database_age, dbg) ==
    IF dbg
    THEN <<[fn |-> "healthcheck", database |-> database.database_type,
            metadata |-> database],
           [fn |-> "healthcheck", database |-> database.database_type,
            age |-> database_age]>>
    ELSE <<>>

debug_fresh(database, build_datetime, dbg) ==
    IF dbg
    THEN <<[fn |-> "healthcheck", database |-> database.database_type,
            fresh |-> datetime_to_string(build_datetime)]>>
    ELSE <<>>

\* the loop with the database lists exchanged
databases_swapped(asn_md, city_md) == <<city_md, asn_md>>

\* let databases = [asn_metadata, city_metadata]
databases_of(asn_md, city_md) == <<asn_md, city_md>>

\* the loop without its break: a later stale database overwrites the result
RECURSIVE check_databases_no_break(_, _, _, _, _)
check_databases_no_break(databases, clock, dbg, i, so_far) ==
    IF i > Len(databases) THEN so_far
    ELSE LET database == databases[i]
             build_datetime == unwrap(from_timestamp(database.build_epoch))
             database_age == num_seconds(clock[i], build_datetime)
             printed == so_far.printed \o debug_metadata(database, database_age, dbg)
         IN  IF is_stale(database_age, maximum_stale_ttl)
             THEN check_databases_no_break(databases, clock, dbg, i + 1,
                      [is_healthy |-> FALSE,
                       reason |-> stale_reason(database, build_datetime),
                       printed |-> printed,
                       examined |-> i])
             ELSE check_databases_no_break(databases, clock, dbg, i + 1,
                      [so_far EXCEPT
                          !.printed = printed \o debug_fresh(database, build_datetime, dbg),
                          !.examined = i])

\* for database in databases.iter() { ... }, from the i-th database on;
\* clock[i] is what Utc::now() reads in the i-th iteration, and `examined`
\* counts the iterations entered
RECURSIVE check_databases(_, _, _, _, _)
check_databases(databases, clock, dbg, i, so_far) ==
    IF i > Len(databases) THEN so_far
    ELSE LET database == databases[i]
             build_datetime == unwrap(from_timestamp(database.build_epoch))
             database_age == num_seconds(clock[i], build_datetime)
             printed == so_far.printed \o debug_metadata(database, database_age, dbg)
         IN  IF is_stale(database_age, maximum_stale_ttl)
             THEN [is_healthy |-> FALSE,
                   reason |-> stale_reason(database, build_datetime),
                   printed |-> printed,
                   examined |-> i]
             ELSE check_databases(databases, clock, dbg, i + 1,
                      [so_far EXCEPT
                          !.printed = printed \o debug_fresh(database, build_datetime, dbg),
                          !.examined = i])

\* the handler: the metadata of both files, the loop, the JSON response
healthcheck_handler(asn_md, city_md, clock, compact, dbg) ==
    LET databases == databases_of(lookup_metadata(asn_md), lookup_metadata(city_md))
        checked == check_databases(databases, clock, dbg, 1,
                       [is_healthy |-> health_default.is_healthy,
                        reason |-> health_default.reason,
                        printed |-> <<>>,
                        examined |-> 0])
        result == [is_healthy |-> checked.is_healthy, reason |-> checked.reason]
    IN  [kind |-> "Return",
         value |-> json_response(compact, result),
         printed |-> checked.printed,
         examined |-> checked.examined]

----------------------------------------------------------------------------
(* The databases that answer "not found" for every address                 *)

EmptyDatabase == [a \in Addresses |-> Err("AddressNotFoundError")]

\* a database holding one network: `entry` resolves to `found`, every other
\* address is not found
OneNetwork(entry, found) ==
    [a \in Addresses |-> IF a = entry THEN found ELSE Err("AddressNotFoundError")]

\* the metadata of database files built at the example's build_epoch
ExampleAsnMetadata == Metadata("GeoLite2-ASN", ExampleBuildEpoch)
ExampleCityMetadata == Metadata("GeoLite2-City", ExampleBuildEpoch)

----------------------------------------------------------------------------
(* SpecAsn: lookup_asn called on every ASN database                        *)

InitAsn ==
    /\ asn_database_file \in [Addresses -> AsnLookupResults]
    /\ city_database_file = EmptyDatabase
    /\ debug \in BOOLEAN
    /\ verbose \in BOOLEAN
    /\ call = Idle
    /\ ret = NoCall
    /\ asn_metadata = ExampleAsnMetadata
    /\ city_metadata = ExampleCityMetadata
    /\ history = <<>>

CallLookupAsn(addr) ==
    /\ call' = [op |-> "lookup_asn", addr |-> addr]
    /\ ret' = lookup_asn(asn_database_file, addr, debug, verbose)
    /\ UNCHANGED <<asn_database_file, city_database_file, debug, verbose,
                   asn_metadata, city_metadata, history>>

NextAsn == \E addr \in Addresses : CallLookupAsn(addr)

SpecAsn == InitAsn /\ [][NextAsn]_vars

----------------------------------------------------------------------------
(* SpecCity: lookup_city called on every City database with one network    *)

InitCity ==
    /\ asn_database_file = EmptyDatabase
    /\ \E entry \in Addresses, found \in CityLookupResults :
           city_database_file = OneNetwork(entry, found)
    /\ debug \in BOOLEAN
    /\ verbose \in BOOLEAN
    /\ call = Idle
    /\ ret = NoCall
    /\ asn_metadata = ExampleAsnMetadata
    /\ city_metadata = ExampleCityMetadata
    /\ history = <<>>

CallLookupCity(addr) ==
    /\ call' = [op |-> "lookup_city", addr |-> addr]
    /\ ret' = lookup_city(city_database_file, addr, debug, verbose)
    /\ UNCHANGED <<asn_database_file, city_database_file, debug, verbose,
                   asn_metadata, city_metadata, history>>

NextCity == \E addr \in Addresses : CallLookupCity(addr)

SpecCity == InitCity /\ [][NextCity]_vars

----------------------------------------------------------------------------
(* Spec: lookup and the two address handlers, on an ASN database and a     *)
(* City database with one network each                                     *)

CompleteCity == [names |-> Some("en" :> "Mountain View" @@ "fr" :> "Mountain View (fr)")]
CompleteContinent ==
    [code |-> Some("NA"), names |-> Some("en" :> "North America" @@ "fr" :> "Amerique du Nord")]
CompleteCountry ==
    [iso_code |-> Some("US"), names |-> Some("en" :> "United States" @@ "fr" :> "Etats-Unis")]
FrenchCountry == [iso_code |-> Some("US"), names |-> Some("fr" :> "Etats-Unis")]
CompleteSubdivision ==
    [iso_code |-> Some("CA"), names |-> Some("en" :> "California" @@ "fr" :> "Californie")]

\* City records whose groups are absent or complete, and two kinds that
\* make lookup_city panic
SampleCityRecords ==
    [city : {None, Some(CompleteCity)},
     continent : {None, Some(CompleteContinent)},
     country : {None, Some(CompleteCountry), Some(FrenchCountry)},
     subdivisions : {None, Some(<<CompleteSubdivision>>), Some(<<>>)}]

SampleCityLookupResults ==
    {Err(e) : e \in LookupErrors} \cup {Ok(r) : r \in SampleCityRecords}

\* ASN records: complete ones, and one of each kind that makes lookup_asn
\* panic
SampleAsnRecords ==
    {[autonomous_system_number |-> Some(15169),
      autonomous_system_organization |-> Some("Google LLC")],
     [autonomous_system_number |-> Some(2147483647),
      autonomous_system_organization |-> Some("Level 3, Inc. (US)")],
     [autonomous_system_number |-> Some(7),
      autonomous_system_organization |-> None],
     [autonomous_system_number |-> None,
      autonomous_system_organization |-> Some("Google LLC")]}

SampleAsnLookupResults ==
    {Err(e) : e \in LookupErrors} \cup {Ok(r) : r \in SampleAsnRecords}

\* what a request's connection can carry
ConnectionInfos ==
    [forwarded : {None, Some("4.3.2.1")},
     x_forwarded_for : {None, Some("not-an-address")},
     peer_addr : {None, Some("2600::1")}]

Init ==
    /\ \E entry \in Addresses :
           /\ \E found \in SampleAsnLookupResults :
                  asn_database_file = OneNetwork(entry, found)
           /\ \E found \in SampleCityLookupResults :
                  city_database_file = OneNetwork(entry, found)
    /\ debug \in BOOLEAN
    /\ verbose \in BOOLEAN
    /\ call = Idle
    /\ ret = NoCall
    /\ asn_metadata = ExampleAsnMetadata
    /\ city_metadata = ExampleCityMetadata
    /\ history = <<>>

\* lookup called directly, as main does in offline mode
CallLookup(addr) ==
    /\ call' = [op |-> "lookup", addr |-> addr]
    /\ ret' = lookup(asn_database_file, city_database_file, addr, debug, verbose)
    /\ UNCHANGED <<asn_database_file, city_database_file, debug, verbose,
                   asn_metadata, city_metadata, history>>

\* GET /address/{address}[?compact]
specific_address(path_address, compact) ==
    /\ call' = [op |-> "specific_address", address |-> path_address, compact |-> compact]
    /\ ret' = specific_address_handler(asn_database_file, city_database_file,
                                       path_address, compact, debug, verbose)
    /\ UNCHANGED <<asn_database_file, city_database_file, debug, verbose,
                   asn_metadata, city_metadata, history>>

\* GET /address[?compact]
client_address(conn, compact) ==
    /\ call' = [op |-> "client_address", conn |-> conn, compact |-> compact]
    /\ ret' = client_address_handler(asn_database_file, city_database_file,
                                     conn, compact, debug, verbose)
    /\ UNCHANGED <<asn_database_file, city_database_file, debug, verbose,
                   asn_metadata, city_metadata, history>>

Next ==
    \/ \E addr \in Addresses : CallLookup(addr)
    \/ \E s \in AddressStrings, compact \in {None, Some("")} : specific_address(s, compact)
    \/ \E conn \in ConnectionInfos, compact \in {None, Some("")} : client_address(conn, compact)

Spec == Init /\ [][Next]_vars

----------------------------------------------------------------------------
(* SpecHealth: /healthcheck on database files of every age around the      *)
(* threshold                                                               *)

\* build epochs: the example's, one second and one week after it
BuildEpochs == {ExampleBuildEpoch, ExampleBuildEpoch + 1, ExampleBuildEpoch + 604800}

\* what Utc::now() can read first: before the example's build, shortly after
\* it, and around the moment the example's database turns stale
FirstReadings ==
    [secs : {ExampleBuildEpoch - 2, ExampleBuildEpoch + 3600,
             ExampleBuildEpoch + 1295999, ExampleBuildEpoch + 1296000,
             ExampleBuildEpoch + 1296001, ExampleBuildEpoch + 604800 + 1296000},
     subsec : BOOLEAN]

\* the readings of one request: one per database, the clock not going back
Clocks ==
    {<<first, [secs |-> first.secs + step, subsec |-> first.subsec]>> :
         first \in FirstReadings, step \in 0..MaxClockStep}

InitHealth ==
    /\ asn_database_file = EmptyDatabase
    /\ city_database_file = EmptyDatabase
    /\ debug \in BOOLEAN
    /\ verbose \in BOOLEAN
    /\ call = Idle
    /\ ret = NoCall
    /\ \E e \in BuildEpochs : asn_metadata = Metadata("GeoLite2-ASN", e)
    /\ \E e \in BuildEpochs : city_metadata = Metadata("GeoLite2-City", e)
    /\ history = <<>>

\* GET /healthcheck[?compact]
healthcheck(clock, compact) ==
    /\ call' = [op |-> "healthcheck", clock |-> clock, compact |-> compact]
    /\ ret' = healthcheck_handler(asn_metadata, city_metadata, clock, compact, debug)
    /\ UNCHANGED <<asn_database_file, city_database_file, debug, verbose,
                   asn_metadata, city_metadata, history>>

NextHealth == \E clock \in Clocks, compact \in {None, Some("")} : healthcheck(clock, compact)

SpecHealth == InitHealth /\ [][NextHealth]_vars

----------------------------------------------------------------------------
(* SpecRepeat: lookup called again and again, for the same and for other   *)
(* addresses, on the same database files                                   *)

MaxCalls == 3

\* lookup called once more, the call and its outcome kept in the history
CallLookupAgain(addr) ==
    /\ Len(history) < MaxCalls
    /\ call' = [op |-> "lookup", addr |-> addr]
    /\ ret' = lookup(asn_database_file, city_database_file, addr, debug, verbose)
    /\ history' = Append(history, [addr |-> addr, ret |-> ret'])
    /\ UNCHANGED <<asn_database_file, city_database_file, debug, verbose,
                   asn_metadata, city_metadata>>

NextRepeat == \E addr \in Addresses : CallLookupAgain(addr)

SpecRepeat == Init /\ [][NextRepeat]_vars

----------------------------------------------------------------------------
(* Properties                                                              *)

\* what the provider answered for the address of the last call
asn_found == reader_lookup(asn_database_file, call.addr)
city_found == reader_lookup(city_database_file, call.addr)

AsnCalled == call.op = "lookup_asn"
CityCalled == call.op = "lookup_city"
LookupCalled == call.op = "lookup"
Returned == ret.kind = "Return"

\* C1: whenever the ASN provider lookup ends in an error ("not found" or any
\* other), lookup_asn returns exactly asn = 0 and asn_organization = "-".
C1_AsnErrorYieldsDefault ==
    (AsnCalled /\ ~asn_found.ok) =>
        /\ Returned
        /\ ret.value.asn = 0
        /\ ret.value.asn_organization = "-"

\* lookup_asn has answered a lookup that failed with an error other than
\* "not found"
C1_Witness ==
    /\ AsnCalled
    /\ asn_found = Err("InvalidDatabaseError")
    /\ Returned

\* C2: whenever the City provider lookup ends in an error, lookup_city
\* returns city = "-" and continent, country, subdivisions = ("-", "-").
C2_CityErrorYieldsDefault ==
    (CityCalled /\ ~city_found.ok) =>
        /\ Returned
        /\ ret.value.city = "-"
        /\ ret.value.continent = <<"-", "-">>
        /\ ret.value.country = <<"-", "-">>
        /\ ret.value.subdivisions = <<"-", "-">>

\* lookup_city has answered a lookup that failed with "not found"
C2_Witness ==
    /\ CityCalled
    /\ city_found = Err("AddressNotFoundError")
    /\ Returned

\* C3: when the ASN lookup succeeds with a record, lookup_asn returns, asn is
\* the record's number if present else 0, and asn_organization is the
\* record's organization name if present else "-", each independently.
C3_AsnFieldsDefaultIndependently ==
    (AsnCalled /\ asn_found.ok) =>
        LET result == asn_found.value IN
        /\ Returned
        /\ ret.value.asn =
               IF is_some(result.autonomous_system_number)
               THEN unwrap(result.autonomous_system_number) ELSE 0
        /\ ret.value.asn_organization =
               IF is_some(result.autonomous_system_organization)
               THEN unwrap(result.autonomous_system_organization) ELSE "-"

\* What the specification's rules give for a City record: the "en" name of
\* a names map or "-", a code or "-", the first subdivision or ("-", "-").
ExpectedName(names) ==
    IF names = None \/ "en" \notin DOMAIN unwrap(names) THEN "-"
    ELSE unwrap(names)["en"]

ExpectedPair(code, names) ==
    <<IF code = None THEN "-" ELSE unwrap(code), ExpectedName(names)>>

ExpectedCity(result) ==
    IF result.city = None THEN "-" ELSE ExpectedName(unwrap(result.city).names)

ExpectedContinent(result) ==
    IF result.continent = None THEN <<"-", "-">>
    ELSE ExpectedPair(unwrap(result.continent).code, unwrap(result.continent).names)

ExpectedCountry(result) ==
    IF result.country = None THEN <<"-", "-">>
    ELSE ExpectedPair(unwrap(result.country).iso_code, unwrap(result.country).names)

ExpectedSubdivisions(result) ==
    IF result.subdivisions = None \/ unwrap(result.subdivisions) = <<>>
    THEN <<"-", "-">>
    ELSE ExpectedPair(unwrap(result.subdivisions)[1].iso_code,
                      unwrap(result.subdivisions)[1].names)

\* a names map that has the "en" key, a code that is present
HasEnglish(names) == names # None /\ "en" \in DOMAIN unwrap(names)

\* the substructures lookup_city reads a code and a name from: the
\* continent, the country and the first subdivision, where present
CodedGroups(result) ==
    (IF result.continent = None THEN {}
     ELSE {<<unwrap(result.continent).code, unwrap(result.continent).names>>})
    \cup
    (IF result.country = None THEN {}
     ELSE {<<unwrap(result.country).iso_code, unwrap(result.country).names>>})
    \cup
    (IF result.subdivisions = None \/ unwrap(result.subdivisions) = <<>> THEN {}
     ELSE {<<unwrap(result.subdivisions)[1].iso_code,
             unwrap(result.subdivisions)[1].names>>})

EveryCodePresent(result) == \A g \in CodedGroups(result) : g[1] # None

EveryNameEnglish(result) ==
    /\ \A g \in CodedGroups(result) : HasEnglish(g[2])
    /\ result.city # None => HasEnglish(unwrap(result.city).names)

NoEmptySubdivisions(result) ==
    result.subdivisions = None \/ unwrap(result.subdivisions) # <<>>

\* C4: for every successful City record lookup_city returns, and each of the
\* four groups comes from its own substructure only: an absent one yields
\* its default and a present one yields its values, whatever the other
\* groups are.
C4_GroupsResolveIndependently ==
    (CityCalled /\ city_found.ok) =>
        LET result == city_found.value IN
        /\ Returned
        /\ ret.value.city = ExpectedCity(result)
        /\ ret.value.continent = ExpectedContinent(result)
        /\ ret.value.country = ExpectedCountry(result)
        /\ ret.value.subdivisions = ExpectedSubdivisions(result)

\* C5: a continent, country or first subdivision that is present without its
\* code yields "-" in the code slot of its pair, and lookup_city still
\* returns. (Stated for the records in which nothing but a code is missing.)
C5_AbsentCodeYieldsSentinel ==
    (CityCalled /\ city_found.ok
        /\ EveryNameEnglish(city_found.value)
        /\ NoEmptySubdivisions(city_found.value)) =>
        LET result == city_found.value IN
        /\ Returned
        /\ ret.value.continent[1] = ExpectedContinent(result)[1]
        /\ ret.value.country[1] = ExpectedCountry(result)[1]
        /\ ret.value.subdivisions[1] = ExpectedSubdivisions(result)[1]

\* C6: a names map that is absent or has no "en" key yields the name "-",
\* not another locale's value and not a panic. (Stated for the records in
\* which nothing but a name is missing.)
C6_MissingEnglishYieldsSentinel ==
    (CityCalled /\ city_found.ok
        /\ EveryCodePresent(city_found.value)
        /\ NoEmptySubdivisions(city_found.value)) =>
        LET result == city_found.value IN
        /\ Returned
        /\ ret.value.city = ExpectedCity(result)
        /\ ret.value.continent[2] = ExpectedContinent(result)[2]
        /\ ret.value.country[2] = ExpectedCountry(result)[2]
        /\ ret.value.subdivisions[2] = ExpectedSubdivisions(result)[2]

\* C7: the subdivisions pair comes from the first element only of a present,
\* non-empty subdivisions sequence, and is ("-", "-") when the sequence is
\* absent or present but empty. (Stated for the records in which no code and
\* no "en" name is missing.)
C7_FirstSubdivisionOnly ==
    (CityCalled /\ city_found.ok
        /\ EveryCodePresent(city_found.value)
        /\ EveryNameEnglish(city_found.value)) =>
        LET result == city_found.value IN
        /\ Returned
        /\ ret.value.subdivisions = ExpectedSubdivisions(result)

\* Where lookup_city does return for a record, every group has the value the
\* rules give it: the rules fail only by the panics.
ReturnedCityIsExpected ==
    (CityCalled /\ city_found.ok /\ Returned) =>
        LET result == city_found.value IN
        /\ ret.value.city = ExpectedCity(result)
        /\ ret.value.continent = ExpectedContinent(result)
        /\ ret.value.country = ExpectedCountry(result)
        /\ ret.value.subdivisions = ExpectedSubdivisions(result)

\* The decimal text of the ASN values the databases hold
DecimalText(n) ==
    CASE n = 0 -> "0"
      [] n = 7 -> "7"
      [] n = 15169 -> "15169"
      [] n = 2147483647 -> "2147483647"

\* the summary grammar: "<city>,<subdivision code>/<country code>; <organization> (<asn>);"
SummaryOf(r) ==
    r.city \o "," \o r.subdivisions[1] \o "/" \o r.country[1] \o "; "
        \o r.asn_organization \o " (" \o DecimalText(r.asn) \o ");"

HandlerCalled == call.op \in {"specific_address", "client_address"}

\* C8: the summary of every LookupResult that lookup returns, and of every
\* one a handler serialises, is the concatenation
\* city "," subdivision-code "/" country-code "; " organization " (" asn ");"
\* of that same result's fields, verbatim, the asn in decimal; the Google
\* record's summary is "Mountain View,CA/US; Google LLC (15169);".
C8_SummaryGrammar ==
    /\ (LookupCalled /\ Returned) =>
           /\ ret.value.summary = SummaryOf(ret.value)
           /\ (ret.value.city = "Mountain View" /\ ret.value.subdivisions[1] = "CA"
                 /\ ret.value.country[1] = "US" /\ ret.value.asn = 15169
                 /\ ret.value.asn_organization = "Google LLC")
               => ret.value.summary = "Mountain View,CA/US; Google LLC (15169);"
    /\ (HandlerCalled /\ Returned) =>
           ret.value.json.summary = SummaryOf(ret.value.json)

\* lookup has returned the Google record of Mountain View
C8_Witness ==
    /\ LookupCalled
    /\ Returned
    /\ ret.value.summary = "Mountain View,CA/US; Google LLC (15169);"
    /\ ret.value.continent = <<"NA", "North America">>

\* the address a handler was asked about: the path's, or the connection's
RequestedAddress ==
    IF call.op = "specific_address" THEN ip_parse(call.address)
    ELSE ip_parse(unwrap(realip_remote_addr(call.conn)))

\* C9: the LookupResult lookup returns for address X has address = X, and
\* so has the one either handler sends, in the pretty and in the compact
\* layout, whether the ASN and City lookups succeed or fail.
C9_AddressEcho ==
    /\ (LookupCalled /\ Returned) => ret.value.address = call.addr
    /\ (HandlerCalled /\ Returned) =>
           /\ RequestedAddress.ok
           /\ ip_parse(ret.value.json.address) = RequestedAddress
           /\ ret.value.layout = IF is_some(call.compact) THEN "compact" ELSE "pretty"

\* a handler has answered, in the compact layout, for the IPv6 address while
\* both lookups failed
C9_Witness ==
    /\ call.op = "specific_address"
    /\ call.address = "2600:0:0:0:0:0:0:1"
    /\ is_some(call.compact)
    /\ Returned
    /\ ret.value.json.address = "2600::1"
    /\ ~reader_lookup(asn_database_file, Addr2600).ok
    /\ ~reader_lookup(city_database_file, Addr2600).ok

\* C10: within one lookup call, when the ASN lookup fails the composite is
\* still returned, with the City fields lookup_city alone yields and the ASN
\* defaults; when the City lookup fails it is still returned, with the ASN
\* fields lookup_asn alone yields and the City defaults.
C10_FailureIsolation ==
    LookupCalled =>
        LET asn == lookup_asn(asn_database_file, call.addr, debug, verbose)
            city == lookup_city(city_database_file, call.addr, debug, verbose)
        IN
        /\ ~asn_found.ok =>
               /\ Returned
               /\ ret.value.asn = 0 /\ ret.value.asn_organization = "-"
               /\ city.kind = "Return"
               /\ ret.value.city = city.value.city
               /\ ret.value.continent = city.value.continent
               /\ ret.value.country = city.value.country
               /\ ret.value.subdivisions = city.value.subdivisions
        /\ ~city_found.ok =>
               /\ Returned
               /\ ret.value.city = "-"
               /\ ret.value.continent = <<"-", "-">>
               /\ ret.value.country = <<"-", "-">>
               /\ ret.value.subdivisions = <<"-", "-">>
               /\ asn.kind = "Return"
               /\ ret.value.asn = asn.value.asn
               /\ ret.value.asn_organization = asn.value.asn_organization

\* Where both sides return, a failure on one side changes nothing on the
\* other: the composite holds what lookup_asn and lookup_city yield alone.
ReturnedLookupIsIsolated ==
    LookupCalled =>
        LET asn == lookup_asn(asn_database_file, call.addr, debug, verbose)
            city == lookup_city(city_database_file, call.addr, debug, verbose)
        IN
        /\ Returned <=> (asn.kind = "Return" /\ city.kind = "Return")
        /\ Returned =>
               /\ ret.value.asn = asn.value.asn
               /\ ret.value.asn_organization = asn.value.asn_organization
               /\ ret.value.city = city.value.city
               /\ ret.value.continent = city.value.continent
               /\ ret.value.country = city.value.country
               /\ ret.value.subdivisions = city.value.subdivisions

\* C11: for every address and every provider outcome lookup returns a fully
\* populated LookupResult and never panics.
C11_LookupAlwaysReturns ==
    LookupCalled =>
        /\ Returned
        /\ ret.value.address = call.addr
        /\ ret.value.asn_organization # "" /\ ret.value.city # ""
        /\ ret.value.summary # ""

HealthCalled == call.op = "healthcheck"

\* The freshness evaluation returns a response for every build_epoch and
\* every reading of the clock of the model.
HealthcheckAlwaysReturns ==
    HealthCalled =>
        /\ Returned
        /\ ret.value.json.is_healthy \in BOOLEAN
        /\ ret.value.json.reason # ""

\* the age of the ASN and of the City database, in whole seconds, at the
\* reading of the clock made for it
AgeOfAsn == call.clock[1].secs - asn_metadata.build_epoch
AgeOfCity == call.clock[2].secs - city_metadata.build_epoch

Healthy == ret.value.json.is_healthy
Reason == ret.value.json.reason

\* the build dates of the model's build epochs, as chrono prints them
DateText(build_epoch) ==
    CASE build_epoch = 1722343686 -> "2024-07-30 12:48:06 UTC"
      [] build_epoch = 1722343687 -> "2024-07-30 12:48:07 UTC"
      [] build_epoch = 1722948486 -> "2024-08-06 12:48:06 UTC"

StaleReasonOf(metadata) ==
    "Database is stale (" \o metadata.database_type \o " build date: "
        \o DateText(metadata.build_epoch) \o ")"

\* C12: the threshold is 1296000 seconds and the comparison is inclusive: a
\* database aged exactly 1296000 is reported stale, one aged 1295999 is not.
C12_ThresholdInclusive ==
    /\ maximum_stale_ttl = 1296000
    /\ HealthCalled =>
           /\ AgeOfAsn = 1296000 => (~Healthy /\ Reason = StaleReasonOf(asn_metadata))
           /\ AgeOfAsn = 1295999 => Reason # StaleReasonOf(asn_metadata)
           /\ (AgeOfAsn < 1296000 /\ AgeOfCity = 1296000) =>
                  (~Healthy /\ Reason = StaleReasonOf(city_metadata))
           /\ (AgeOfAsn = 1295999 /\ AgeOfCity = 1295999) => Healthy

\* the ASN database, aged 1295999, has passed and the City database, aged
\* exactly 1296000, has been reported stale
C12_Witness ==
    /\ HealthCalled
    /\ AgeOfAsn = 1295999
    /\ AgeOfCity = 1296000
    /\ ~Healthy
    /\ Reason = "Database is stale (GeoLite2-City build date: 2024-07-30 12:48:06 UTC)"

\* the evaluation loop on three sources, A fresh and B, C stale, and on B, A
ThreeSources ==
    LET A == Metadata("A", ExampleBuildEpoch + 604800)
        B == Metadata("B", ExampleBuildEpoch)
        C == Metadata("C", ExampleBuildEpoch + 1)
        now == [secs |-> ExampleBuildEpoch + 1296001, subsec |-> FALSE]
        start == [is_healthy |-> health_default.is_healthy,
                  reason |-> health_default.reason,
                  printed |-> <<>>, examined |-> 0]
    IN  [abc |-> check_databases(<<A, B, C>>, <<now, now, now>>, TRUE, 1, start),
         ba |-> check_databases(<<B, A>>, <<now, now>>, TRUE, 1, start),
         B |-> B]

\* C13: the evaluation is first-stale-wins and short-circuiting: at the first
\* database whose age is at least the threshold the result is unhealthy with
\* the reason "Database is stale (<type> build date: <build datetime>)" of
\* that database, and no later database is examined: none is counted and
\* none appears in what debug prints. For sources [A fresh, B stale, C stale]
\* the reason names B and C is not examined.
C13_FirstStaleWins ==
    /\ HealthCalled =>
           /\ AgeOfAsn >= 1296000 =>
                  /\ ~Healthy
                  /\ Reason = StaleReasonOf(asn_metadata)
                  /\ ret.examined = 1
                  /\ \A k \in 1..Len(ret.printed) :
                         ret.printed[k].database = asn_metadata.database_type
           /\ (AgeOfAsn < 1296000 /\ AgeOfCity >= 1296000) =>
                  /\ ~Healthy
                  /\ Reason = StaleReasonOf(city_metadata)
                  /\ ret.examined = 2
    /\ ThreeSources.abc.reason = StaleReasonOf(ThreeSources.B)
    /\ ThreeSources.abc.examined = 2
    /\ \A k \in 1..Len(ThreeSources.abc.printed) :
           ThreeSources.abc.printed[k].database # "C"
    /\ ThreeSources.ba.reason = StaleReasonOf(ThreeSources.B)
    /\ ThreeSources.ba.examined = 1

\* with debug set, both databases were stale: the ASN database was reported
\* and the City database was not examined
C13_Witness ==
    /\ HealthCalled
    /\ debug
    /\ AgeOfAsn >= 1296000
    /\ AgeOfCity > AgeOfAsn
    /\ Reason = "Database is stale (GeoLite2-ASN build date: 2024-07-30 12:48:07 UTC)"
    /\ ret.examined = 1
    /\ Len(ret.printed) = 2

\* C14: the result is {is_healthy: true, reason: "Check of databases passed"}
\* exactly when every examined database has an age below the threshold, and
\* is_healthy is false exactly when at least one database is stale.
C14_HealthyIffAllFresh ==
    HealthCalled =>
        /\ (Healthy /\ Reason = "Check of databases passed")
               <=> (AgeOfAsn < 1296000 /\ AgeOfCity < 1296000)
        /\ ~Healthy <=> (AgeOfAsn >= 1296000 \/ AgeOfCity >= 1296000)
        /\ Healthy => ret.examined = 2

\* both databases were examined, one second short of stale, and passed
C14_Witness ==
    /\ HealthCalled
    /\ AgeOfAsn = 1295999
    /\ AgeOfCity = 1295999
    /\ Healthy
    /\ Reason = "Check of databases passed"

\* C17: the handler evaluates the ASN database before the City database:
\* when both are stale the reason names the ASN database's type and build
\* date, and the City database is reported only when the ASN one is fresh.
C17_AsnBeforeCity ==
    HealthCalled =>
        /\ (AgeOfAsn >= 1296000 /\ AgeOfCity >= 1296000) =>
               Reason = StaleReasonOf(asn_metadata)
        /\ Reason = StaleReasonOf(city_metadata) => AgeOfAsn < 1296000

\* both databases were stale, the City database the older one, and the
\* reason named the ASN database
C17_Witness ==
    /\ HealthCalled
    /\ AgeOfCity >= 1296000 + 604800
    /\ AgeOfAsn >= 1296000
    /\ AgeOfAsn < AgeOfCity
    /\ Reason = "Database is stale (GeoLite2-ASN build date: 2024-08-06 12:48:06 UTC)"

FieldsOfResult(result) ==
    {result.asn_organization, result.city, result.summary,
     result.continent[1], result.continent[2],
     result.country[1], result.country[2]}
        \cup {result.subdivisions[k] : k \in 1..Len(result.subdivisions)}

SameOutcome(a, b) == a.kind = b.kind /\ a.value = b.value

\* C16: what lookup_asn, lookup_city and lookup return does not depend on
\* debug and verbose: for the same address and databases every setting of
\* the two flags gives the same outcome, and no error of the provider
\* appears in a returned field.
C16_FlagsDoNotChangeResults ==
    LookupCalled =>
        /\ \A d \in BOOLEAN, v \in BOOLEAN :
               /\ SameOutcome(lookup(asn_database_file, city_database_file,
                                     call.addr, d, v), ret)
               /\ SameOutcome(lookup_asn(asn_database_file, call.addr, d, v),
                              lookup_asn(asn_database_file, call.addr,
                                         debug, verbose))
               /\ SameOutcome(lookup_city(city_database_file, call.addr, d, v),
                              lookup_city(city_database_file, call.addr,
                                          debug, verbose))
        /\ Returned => FieldsOfResult(ret.value) \cap LookupErrors = {}

\* with debug set both databases answered with an error: the errors were
\* printed and the defaults returned
C16_Witness ==
    /\ LookupCalled
    /\ debug
    /\ Returned
    /\ ~reader_lookup(asn_database_file, call.addr).ok
    /\ ~reader_lookup(city_database_file, call.addr).ok
    /\ Len(ret.printed) = 2
    /\ ret.printed[1].error \in LookupErrors
    /\ ret.value.asn_organization = "-"

====
